---------------------------- MODULE Spec2Model ----------------------------
(***************************************************************************)
(* A model of proseg's driver (src/src/main.rs) and of its transcript      *)
(* ingestion (src/src/sampler/transcripts.rs).                             *)
(*                                                                         *)
(* Numbers.  TLC's integers are 32 bits wide, so the two machine maxima    *)
(* the code uses as sentinels are represented by smaller values that keep  *)
(* their order (every cell id of the model < U32_MAX < USIZE_MAX).  f32    *)
(* and f64 quantities are modelled as exact rationals: coordinates are     *)
(* integers, and a length that the code obtains through sqrt is kept as    *)
(* its square (a pair <<num, den>>), so that ceil and floor of a quotient  *)
(* are decided exactly.  IEEE special cases that the code can reach with   *)
(* these inputs (division by a zero chunk size) are modelled by their      *)
(* IEEE results; rounding, overflow to infinity and underflow are not.     *)
(*                                                                         *)
(* Calls.  The bodies of HexBinSampler, ModelParams and hull are not in    *)
(* these two files: main's calls of them are recorded in order (trace,     *)
(* params, created) and their effect on the parameters is not interpreted. *)
(* The quality threshold min_qv, which the reader takes and main.rs does   *)
(* not pass, is an input of the reader.                                    *)
(***************************************************************************)
EXTENDS Integers, Sequences, FiniteSets, TLC

(***************************************************************************)
(* Bounds of the model                                                     *)
(***************************************************************************)
\* longest input file (records) read in the ingestion specification
MaxRows == 2
\* longest input file read in the whole-program specification
MainMaxRows == 2
\* largest --local-steps-per-iter drawn by Args::parse
MaxLocalSteps == 2
\* iterations per schedule stage (200 in the source, scaled down)
NIter == 2
\* largest coordinate span drawn in the chunk-search specification
MaxSpan == 4
\* largest coordinate and most transcripts drawn in the area specification
MaxCoord == 2
MaxPoints == 2

(***************************************************************************)
(* Program constants                                                       *)
(***************************************************************************)
\* std::u32::MAX, the background sentinel (stand-in value, see above)
U32_MAX == 65535
\* usize::MAX (stand-in value, see above)
USIZE_MAX == 2147483647
BACKGROUND_CELL == U32_MAX
CHUNK_FACTOR == 4
\* the 100.0 of min_cells_per_chunk
MIN_CELLS_CAP == 100
\* the 100 of "if i % 100 == 0"
REPORT_EVERY == 100
\* const SCALE: f32 = 2.0 of estimate_full_area
SCALE == 2
\* std::f32::MAX (stand-in value, larger than every coordinate of the model)
F32_MAX == 1000000

AsU32(n) == n % (U32_MAX + 1)

(***************************************************************************)
(* Input files.  A file is a header (a csv::StringRecord: a sequence of    *)
(* column names) and a sequence of records; a record is a sequence of      *)
(* fields in the header's order.                                           *)
(***************************************************************************)
FullHeader ==
    <<"feature_name", "x_location", "y_location", "z_location",
      "cell_id", "overlaps_nucleus", "qv">>

\* the header with the column at position p renamed, so that it is missing
HeaderWithout(p) == [FullHeader EXCEPT ![p] = "other"]

Headers == {FullHeader} \cup {HeaderWithout(p) : p \in 1..Len(FullHeader)}

\* records <<feature_name, x, y, z, cell_id, overlaps_nucleus, qv>>
Records(names, xs, ys, zs, cells, overlaps, qvs) ==
    {<<n, x, y, z, c, o, q>> : n \in names, x \in xs, y \in ys, z \in zs,
                               c \in cells, o \in overlaps, q \in qvs}

RECURSIVE SeqsUpTo(_, _)
SeqsUpTo(S, n) ==
    IF n = 0 THEN {<<>>}
    ELSE LET shorter == SeqsUpTo(S, n - 1)
         IN  shorter \cup {Append(s, e) : s \in {t \in shorter : Len(t) = n - 1}, e \in S}

\* the quality threshold handed to the reader
MinQvs == {1}

IngestRecords == Records({"a", "b"}, {0, 1}, {0}, {3}, {-1, 0, 1}, {0, 1}, {0, 1})

\* files of the ingestion specification: every header with no record, and
\* the full header with up to MaxRows records
IngestFiles ==
    {[headers |-> h, rows |-> <<>>] : h \in Headers}
      \cup {[headers |-> FullHeader, rows |-> r] : r \in SeqsUpTo(IngestRecords, MaxRows)}

\* one gene, two places: background at (0, 0) and at (2, 1), cell 0 at (0, 0)
\* and cell 1 at (2, 1)
MainRecords ==
    {<<"a", 0, 0, 0, -1, 1, 1>>, <<"a", 2, 1, 0, -1, 1, 1>>,
     <<"a", 0, 0, 0, 0, 1, 1>>, <<"a", 2, 1, 0, 1, 1, 1>>}

\* files of the whole-program specification: at least one record, all retained
MainFiles ==
    {[headers |-> h, rows |-> <<<<"a", 0, 0, 0, 0, 1, 1>>>>] : h \in Headers \ {FullHeader}}
      \cup {[headers |-> FullHeader, rows |-> r] :
               r \in SeqsUpTo(MainRecords, MainMaxRows) \ {<<>>}}

(***************************************************************************)
(* transcripts.rs: find_column.  0 stands for the panic                    *)
(* "Column '..' not found in CSV file".                                    *)
(***************************************************************************)
find_column(headers, column) ==
    IF \E p \in 1..Len(headers) : headers[p] = column
    THEN CHOOSE p \in 1..Len(headers) :
             /\ headers[p] = column
             /\ \A q \in 1..(p - 1) : headers[q] # column
    ELSE 0

(***************************************************************************)
(* transcripts.rs: postprocess_cell_assignments.  The population vector is *)
(* a sequence indexed from 1: population[c + 1] is the code's              *)
(* cell_population[c].                                                     *)
(***************************************************************************)
RECURSIVE ncells_loop(_, _, _)
ncells_loop(cell_assignments, p, ncells) ==
    IF p > Len(cell_assignments) THEN ncells
    ELSE LET cell_id == cell_assignments[p]
         IN  ncells_loop(cell_assignments, p + 1,
                 IF cell_id # BACKGROUND_CELL /\ (ncells = USIZE_MAX \/ cell_id >= ncells)
                 THEN cell_id + 1
                 ELSE ncells)

RECURSIVE population_loop(_, _, _)
population_loop(cell_assignments, p, cell_population) ==
    IF p > Len(cell_assignments) THEN cell_population
    ELSE LET cell_id == cell_assignments[p]
         IN  population_loop(cell_assignments, p + 1,
                 IF cell_id # BACKGROUND_CELL
                 THEN [cell_population EXCEPT ![cell_id + 1] = @ + 1]
                 ELSE cell_population)

\* mutant: the vector is sized by the largest cell id, not by that id + 1
postprocess_sized_by_largest_id(cell_assignments) ==
    LET found  == ncells_loop(cell_assignments, 1, USIZE_MAX)
        ncells == IF found = USIZE_MAX THEN 0 ELSE found - 1
    IN  population_loop(cell_assignments, 1, [c \in 1..ncells |-> 0])

postprocess_cell_assignments(cell_assignments) ==
    LET found  == ncells_loop(cell_assignments, 1, USIZE_MAX)
        ncells == IF found = USIZE_MAX THEN 0 ELSE found
    IN  population_loop(cell_assignments, 1, [c \in 1..ncells |-> 0])

(***************************************************************************)
(* transcripts.rs: the record loops of the two readers.  The accumulator   *)
(* holds the four collections the loop grows; transcript_name_map is a     *)
(* function from the names seen to their gene ids.                         *)
(***************************************************************************)
EmptyAcc ==
    [transcripts |-> <<>>, transcript_name_map |-> <<>>,
     transcript_names |-> <<>>, cell_assignments |-> <<>>]

\* mutant: the map is never consulted, every record gets a fresh gene id
GeneLookupAlwaysFresh(acc, transcript_name) ==
    LET names == Append(acc.transcript_names, transcript_name)
    IN  [gene |-> Len(names) - 1,
         transcript_names |-> names,
         transcript_name_map |->
             [n \in DOMAIN acc.transcript_name_map \cup {transcript_name} |->
                 IF n = transcript_name THEN Len(names) - 1
                 ELSE acc.transcript_name_map[n]]]

\* gene id of a name, with the name list and map after the lookup
GeneLookup(acc, transcript_name) ==
    IF transcript_name \in DOMAIN acc.transcript_name_map
    THEN [gene |-> acc.transcript_name_map[transcript_name],
          transcript_names |-> acc.transcript_names,
          transcript_name_map |-> acc.transcript_name_map]
    ELSE LET names == Append(acc.transcript_names, transcript_name)
         IN  [gene |-> Len(names) - 1,
              transcript_names |-> names,
              transcript_name_map |->
                  [n \in DOMAIN acc.transcript_name_map \cup {transcript_name} |->
                      IF n = transcript_name THEN Len(names) - 1
                      ELSE acc.transcript_name_map[n]]]

\* one pass of the loop body of read_transcripts_csv_xy
xy_record(acc, row, cols, min_qv) ==
    IF row[cols.qv] < min_qv THEN acc
    ELSE LET g == GeneLookup(acc, row[cols.transcript])
             cell_id == row[cols.cell_id]
             overlaps_nucleus == row[cols.overlaps_nucleus]
         IN  [transcripts |->
                  Append(acc.transcripts,
                         [x |-> row[cols.x], y |-> row[cols.y], z |-> 0,
                          gene |-> AsU32(g.gene)]),
              transcript_name_map |-> g.transcript_name_map,
              transcript_names |-> g.transcript_names,
              cell_assignments |->
                  Append(acc.cell_assignments,
                         IF cell_id >= 0 /\ overlaps_nucleus > 0
                         THEN AsU32(cell_id) ELSE BACKGROUND_CELL)]

\* mutant: the nucleus overlap is not tested (the "if cell_id >= 0" of line 211)
xyz_record_ignoring_overlap(acc, row, cols, min_qv) ==
    IF row[cols.qv] < min_qv THEN acc
    ELSE LET g == GeneLookup(acc, row[cols.transcript])
             cell_id == row[cols.cell_id]
         IN  [transcripts |->
                  Append(acc.transcripts,
                         [x |-> row[cols.x], y |-> row[cols.y], z |-> row[cols.z],
                          gene |-> AsU32(g.gene)]),
              transcript_name_map |-> g.transcript_name_map,
              transcript_names |-> g.transcript_names,
              cell_assignments |->
                  Append(acc.cell_assignments,
                         IF cell_id >= 0 THEN AsU32(cell_id) ELSE BACKGROUND_CELL)]

\* one pass of the loop body of read_transcripts_csv_xyz
xyz_record(acc, row, cols, min_qv) ==
    IF row[cols.qv] < min_qv THEN acc
    ELSE LET g == GeneLookup(acc, row[cols.transcript])
             cell_id == row[cols.cell_id]
             overlaps_nucleus == row[cols.overlaps_nucleus]
         IN  [transcripts |->
                  Append(acc.transcripts,
                         [x |-> row[cols.x], y |-> row[cols.y], z |-> row[cols.z],
                          gene |-> AsU32(g.gene)]),
              transcript_name_map |-> g.transcript_name_map,
              transcript_names |-> g.transcript_names,
              cell_assignments |->
                  Append(acc.cell_assignments,
                         IF cell_id >= 0 /\ overlaps_nucleus > 0
                         THEN AsU32(cell_id) ELSE BACKGROUND_CELL)]

RECURSIVE xy_records(_, _, _, _, _)
xy_records(acc, rows, p, cols, min_qv) ==
    IF p > Len(rows) THEN acc
    ELSE xy_records(xy_record(acc, rows[p], cols, min_qv), rows, p + 1, cols, min_qv)

RECURSIVE xyz_records(_, _, _, _, _)
xyz_records(acc, rows, p, cols, min_qv) ==
    IF p > Len(rows) THEN acc
    ELSE xyz_records(xyz_record(acc, rows[p], cols, min_qv), rows, p + 1, cols, min_qv)

\* what a reader returns, or the panic that ended it
Panicked(why) ==
    [panic |-> why, transcript_names |-> <<>>, transcripts |-> <<>>,
     cell_assignments |-> <<>>, cell_population |-> <<>>]

Returned(acc) ==
    [panic |-> "none",
     transcript_names |-> acc.transcript_names,
     transcripts |-> acc.transcripts,
     cell_assignments |-> acc.cell_assignments,
     cell_population |-> postprocess_cell_assignments(acc.cell_assignments)]

read_transcripts_csv_xy(file, transcript_column, x_column, y_column, min_qv) ==
    LET cols == [transcript |-> find_column(file.headers, transcript_column),
                 x |-> find_column(file.headers, x_column),
                 y |-> find_column(file.headers, y_column),
                 cell_id |-> find_column(file.headers, "cell_id"),
                 overlaps_nucleus |-> find_column(file.headers, "overlaps_nucleus"),
                 qv |-> find_column(file.headers, "qv")]
    IN  IF \E f \in DOMAIN cols : cols[f] = 0
        THEN Panicked("column")
        ELSE Returned(xy_records(EmptyAcc, file.rows, 1, cols, min_qv))

read_transcripts_csv_xyz(file, transcript_column, x_column, y_column, z_column, min_qv) ==
    LET cols == [transcript |-> find_column(file.headers, transcript_column),
                 x |-> find_column(file.headers, x_column),
                 y |-> find_column(file.headers, y_column),
                 z |-> find_column(file.headers, z_column),
                 cell_id |-> find_column(file.headers, "cell_id"),
                 overlaps_nucleus |-> find_column(file.headers, "overlaps_nucleus"),
                 qv |-> find_column(file.headers, "qv")]
    IN  IF \E f \in DOMAIN cols : cols[f] = 0
        THEN Panicked("column")
        ELSE Returned(xyz_records(EmptyAcc, file.rows, 1, cols, min_qv))

\* File::open(path).unwrap(), then the reader the z column selects.
\* z_column is an Option: <<>> or <<name>>.
read_transcripts_csv(readable, file, transcript_column, x_column, y_column, z_column, min_qv) ==
    IF ~readable THEN Panicked("open")
    ELSE IF z_column # <<>>
         THEN read_transcripts_csv_xyz(file, transcript_column, x_column, y_column,
                                       z_column[1], min_qv)
         ELSE read_transcripts_csv_xy(file, transcript_column, x_column, y_column, min_qv)


(***************************************************************************)
(* transcripts.rs: coordinate_span, as <<min_x, max_x, min_y, max_y,       *)
(* min_z, max_z>>.                                                         *)
(***************************************************************************)
Min(a, b) == IF a <= b THEN a ELSE b
Max(a, b) == IF a >= b THEN a ELSE b

RECURSIVE span_loop(_, _, _)
span_loop(ts, p, s) ==
    IF p > Len(ts) THEN s
    ELSE span_loop(ts, p + 1,
             <<Min(s[1], ts[p].x), Max(s[2], ts[p].x),
               Min(s[3], ts[p].y), Max(s[4], ts[p].y),
               Min(s[5], ts[p].z), Max(s[6], ts[p].z)>>)

coordinate_span(ts) ==
    span_loop(ts, 1, <<F32_MAX, -F32_MAX, F32_MAX, -F32_MAX, F32_MAX, -F32_MAX>>)

(***************************************************************************)
(* main.rs: the chunk-size search.  A chunk size is kept as its square,    *)
(* the rational sq[1] / sq[2].                                             *)
(***************************************************************************)
\* (area / ((nthreads * CHUNK_FACTOR) as f32)).sqrt()
initial_chunk_size(xs, ys, threads) == <<xs * ys, threads * CHUNK_FACTOR>>

\* mutant: the chunk size is divided by sqrt(2)
shrink_chunk_size(sq) == <<sq[1], 2 * sq[2]>>

\* chunk_size *= std::f32::consts::SQRT_2
grow_chunk_size(sq) == <<2 * sq[1], sq[2]>>

\* (span / chunk_size).ceil() as usize: for a zero chunk size the quotient is
\* NaN (span = 0), cast to 0, or +inf, cast to usize::MAX
ceil_quotient(span, sq) ==
    IF sq[1] = 0 THEN (IF span = 0 THEN 0 ELSE USIZE_MAX)
    ELSE CHOOSE n \in 0..(span * sq[2]) :
             /\ n * n * sq[1] >= span * span * sq[2]
             /\ \A m \in 0..(n - 1) : m * m * sq[1] < span * span * sq[2]

\* the closure nchunks; a zero factor makes the product zero, and no other
\* product of the model leaves the usize range
nchunks(sq, xs, ys) ==
    LET nx == ceil_quotient(xs, sq)
        ny == ceil_quotient(ys, sq)
    IN  IF nx = 0 \/ ny = 0 THEN 0 ELSE nx * ny

\* (ncells as f64).min(100.0)
min_cells_per_chunk(n) == Min(n, MIN_CELLS_CAP)

\* the while condition: a quotient by zero chunks is +inf or NaN, and
\* neither is below the threshold
too_few_cells(n, sq, xs, ys) ==
    LET c == nchunks(sq, xs, ys)
    IN  c # 0 /\ n < min_cells_per_chunk(n) * c

(***************************************************************************)
(* main.rs: the sampler schedule, <<avghexpop * 10, niter>> per stage.     *)
(***************************************************************************)
sampler_schedule == <<<<50, NIter>>, <<25, NIter>>, <<10, NIter>>, <<5, NIter>>>>

(***************************************************************************)
(* State                                                                   *)
(***************************************************************************)
VARIABLES
    pc,                     \* where main is
    panic,                  \* "none", or why the process aborted
    args,                   \* the parsed command line
    input,                  \* the file the reader read
    transcript_names,       \* ingestion's four results
    transcripts,
    init_cell_assignments,
    init_cell_population,
    ncells,
    nthreads,
    xspan,
    yspan,
    chunk_size,             \* squared, <<num, den>>
    params,                 \* the ModelParams main builds
    stage,                  \* index into sampler_schedule, from 1
    i,                      \* run_hexbin_sampler's iteration counter
    step,                   \* local steps done in iteration i
    trace,                  \* the sampler calls made so far
    created,                \* output files created so far, in order
    count_rows,             \* cell rows written to the count table
    mean_nucleus_area,      \* estimate_full_area's argument
    full_area               \* estimate_full_area's result

vars ==
    <<pc, panic, args, input, transcript_names, transcripts, init_cell_assignments,
      init_cell_population, ncells, nthreads, xspan, yspan, chunk_size, params,
      stage, i, step, trace, created, count_rows, mean_nucleus_area, full_area>>

ingested == <<input, transcript_names, transcripts, init_cell_assignments, init_cell_population>>
geometry == <<nthreads, xspan, yspan, chunk_size>>
sampling == <<stage, i, step, trace>>
outputs  == <<created, count_rows>>
areas    == <<mean_nucleus_area, full_area>>

NoArgs == [ncomponents |-> 0, local_steps_per_iter |-> 0, z_column |-> <<>>, min_qv |-> 0]
NoFile == [headers |-> <<>>, rows |-> <<>>]
NoParams ==
    [cell_assignments |-> <<>>, cell_population |-> <<>>, ncomponents |-> 0,
     ncells |-> 0, ngenes |-> 0]

ArgsSet ==
    [ncomponents : {0, 1}, local_steps_per_iter : 0..MaxLocalSteps,
     z_column : {<<>>, <<"z_location">>}, min_qv : MinQvs]

Blank ==
    /\ panic = "none"
    /\ args = NoArgs
    /\ input = NoFile
    /\ transcript_names = <<>>
    /\ transcripts = <<>>
    /\ init_cell_assignments = <<>>
    /\ init_cell_population = <<>>
    /\ ncells = 0
    /\ nthreads = 0
    /\ xspan = 0
    /\ yspan = 0
    /\ chunk_size = <<0, 1>>
    /\ params = NoParams
    /\ stage = 0
    /\ i = 0
    /\ step = 0
    /\ trace = <<>>
    /\ created = <<>>
    /\ count_rows = 0
    /\ mean_nucleus_area = 0
    /\ full_area = 0

Init == pc = "start" /\ Blank

Abort(why) ==
    /\ pc' = "panicked"
    /\ panic' = why

(***************************************************************************)
(* main.rs, lines 73-100                                                   *)
(***************************************************************************)
\* let args = Args::parse();
ParseArgs ==
    /\ pc = "start"
    /\ \E a \in ArgsSet : args' = a
    /\ pc' = "assert"
    /\ UNCHANGED <<panic, ingested, ncells, geometry, params, sampling, outputs, areas>>

\* assert!(args.ncomponents > 0);
AssertNcomponents ==
    /\ pc = "assert"
    /\ IF args.ncomponents > 0
       THEN pc' = "read" /\ UNCHANGED panic
       ELSE Abort("ncomponents")
    /\ UNCHANGED <<args, ingested, ncells, geometry, params, sampling, outputs, areas>>

\* read_transcripts_csv(..): the path may be unreadable; the file is one of Files
ReadTranscripts(Files) ==
    /\ pc = "read"
    /\ \E readable \in BOOLEAN :
       \E file \in (IF readable THEN Files ELSE {NoFile}) :
          LET r == read_transcripts_csv(readable, file, "feature_name", "x_location",
                                        "y_location", args.z_column, args.min_qv)
          IN  /\ input' = file
              /\ IF r.panic # "none"
                 THEN /\ Abort(r.panic)
                      /\ UNCHANGED <<transcript_names, transcripts,
                                     init_cell_assignments, init_cell_population>>
                 ELSE /\ pc' = "ncells"
                      /\ UNCHANGED panic
                      /\ transcript_names' = r.transcript_names
                      /\ transcripts' = r.transcripts
                      /\ init_cell_assignments' = r.cell_assignments
                      /\ init_cell_population' = r.cell_population
    /\ UNCHANGED <<args, ncells, geometry, params, sampling, outputs, areas>>

\* let ncells = init_cell_population.len() - 1;  a usize subtraction: on an
\* empty vector it panics (overflow checks on) or wraps to usize::MAX (off)
ComputeNcells ==
    /\ pc = "ncells"
    /\ \/ /\ Len(init_cell_population) > 0
          /\ ncells' = Len(init_cell_population) - 1
          /\ pc' = "span"
          /\ UNCHANGED panic
       \/ /\ Len(init_cell_population) = 0
          /\ ncells' = USIZE_MAX
          /\ pc' = "span"
          /\ UNCHANGED panic
       \/ /\ Len(init_cell_population) = 0
          /\ Abort("subtract with overflow")
          /\ UNCHANGED ncells
    /\ UNCHANGED <<args, ingested, geometry, params, sampling, outputs, areas>>

NThreads == {1, 2}

\* coordinate_span, xspan and yspan, and the thread count of the pool
CoordinateSpan ==
    /\ pc = "span"
    /\ LET s == coordinate_span(transcripts)
       IN  /\ xspan' = s[2] - s[1]
           /\ yspan' = s[4] - s[3]
    /\ \E n \in NThreads : nthreads' = n
    /\ pc' = "chunk_init"
    /\ UNCHANGED <<panic, args, ingested, ncells, chunk_size, params, sampling, outputs, areas>>

(***************************************************************************)
(* main.rs, lines 102-120: the chunk-size search                           *)
(***************************************************************************)
ChunkInit ==
    /\ pc = "chunk_init"
    /\ chunk_size' = initial_chunk_size(xspan, yspan, nthreads)
    /\ pc' = "chunk_search"
    /\ UNCHANGED <<panic, args, ingested, ncells, nthreads, xspan, yspan, params,
                   sampling, outputs, areas>>

ChunkGrow ==
    /\ pc = "chunk_search"
    /\ too_few_cells(ncells, chunk_size, xspan, yspan)
    /\ chunk_size' = grow_chunk_size(chunk_size)
    /\ UNCHANGED <<pc, panic, args, ingested, ncells, nthreads, xspan, yspan, params,
                   sampling, outputs, areas>>

ChunkFound ==
    /\ pc = "chunk_search"
    /\ ~too_few_cells(ncells, chunk_size, xspan, yspan)
    /\ pc' = "params"
    /\ UNCHANGED <<panic, args, ingested, ncells, geometry, params, sampling, outputs, areas>>

(***************************************************************************)
(* main.rs, lines 122-154: the model parameters, from main's arguments     *)
(***************************************************************************)
BuildParams ==
    /\ pc = "params"
    /\ params' = [cell_assignments |-> init_cell_assignments,
                  cell_population |-> init_cell_population,
                  ncomponents |-> args.ncomponents,
                  ncells |-> ncells,
                  ngenes |-> Len(transcript_names)]
    /\ stage' = 1
    /\ pc' = "stage"
    /\ UNCHANGED <<panic, args, ingested, ncells, geometry, i, step, trace, outputs, areas>>

(***************************************************************************)
(* main.rs, lines 166-179 and 230-271: the schedule and run_hexbin_sampler *)
(***************************************************************************)
\* a call made by stage s on behalf of iteration it (-1: before the loop),
\* with the cell count the stage was given
Call(s, it, op) == [stage |-> s, i |-> it, op |-> op, ncells |-> ncells]

\* mutant: the stage starts without the sample_global_params before the loop
StageStartWithoutResampling ==
    /\ pc = "stage"
    /\ trace' = Append(trace, Call(stage, -1, "new"))
    /\ i' = 0
    /\ step' = 0
    /\ pc' = "iter"
    /\ UNCHANGED <<panic, args, ingested, ncells, geometry, params, stage, outputs, areas>>

\* HexBinSampler::new and the sample_global_params before the loop
StageStart ==
    /\ pc = "stage"
    /\ trace' = trace \o <<Call(stage, -1, "new"), Call(stage, -1, "global")>>
    /\ i' = 0
    /\ step' = 0
    /\ pc' = "iter"
    /\ UNCHANGED <<panic, args, ingested, ncells, geometry, params, stage, outputs, areas>>

\* mutant: the local loop runs over 0..=local_steps_per_iter
SampleCellRegionsOnceMore ==
    /\ pc = "iter"
    /\ i < sampler_schedule[stage][2]
    /\ step <= args.local_steps_per_iter
    /\ trace' = Append(trace, Call(stage, i, "local"))
    /\ step' = step + 1
    /\ UNCHANGED <<pc, panic, args, ingested, ncells, geometry, params, stage, i, outputs, areas>>

SampleCellRegions ==
    /\ pc = "iter"
    /\ i < sampler_schedule[stage][2]
    /\ step < args.local_steps_per_iter
    /\ trace' = Append(trace, Call(stage, i, "local"))
    /\ step' = step + 1
    /\ UNCHANGED <<pc, panic, args, ingested, ncells, geometry, params, stage, i, outputs, areas>>

SampleGlobalParams ==
    /\ pc = "iter"
    /\ i < sampler_schedule[stage][2]
    /\ step = args.local_steps_per_iter
    /\ trace' = Append(trace, Call(stage, i, "global"))
    /\ pc' = "diagnostics"
    /\ UNCHANGED <<panic, args, ingested, ncells, geometry, params, stage, i, step, outputs, areas>>

\* log_likelihood, proposal_stats.reset, and the report of every 100th iteration
Diagnostics ==
    /\ pc = "diagnostics"
    /\ trace' = trace \o <<Call(stage, i, "log_likelihood"), Call(stage, i, "reset")>>
                      \o (IF i % REPORT_EVERY = 0
                          THEN <<Call(stage, i, "nunassigned")>> ELSE <<>>)
    /\ i' = i + 1
    /\ step' = 0
    /\ pc' = "iter"
    /\ UNCHANGED <<panic, args, ingested, ncells, geometry, params, stage, outputs, areas>>

StageEnd ==
    /\ pc = "iter"
    /\ i = sampler_schedule[stage][2]
    /\ IF stage < Len(sampler_schedule)
       THEN stage' = stage + 1 /\ pc' = "stage"
       ELSE pc' = "write_counts" /\ UNCHANGED stage
    /\ i' = 0
    /\ step' = 0
    /\ UNCHANGED <<panic, args, ingested, ncells, geometry, params, trace, outputs, areas>>

(***************************************************************************)
(* main.rs, lines 181-225: the four output files.  File::create(..)        *)
(* .unwrap() succeeds or panics.                                           *)
(***************************************************************************)
CreateFile(at, name, next) ==
    /\ pc = at
    /\ \E writable \in BOOLEAN :
          IF writable
          THEN /\ created' = Append(created, name)
               /\ pc' = next
               /\ UNCHANGED panic
          ELSE /\ Abort("create " \o name)
               /\ UNCHANGED created

\* args.output_counts: the header, then one row per row of params.counts.t()
WriteCounts ==
    /\ CreateFile("write_counts", "counts", "write_z")
    /\ count_rows' = IF pc' = "panicked" THEN count_rows ELSE params.ncells
    /\ UNCHANGED <<args, ingested, ncells, geometry, params, sampling, areas>>

WriteZ ==
    /\ CreateFile("write_z", "z.csv.gz", "write_hulls")
    /\ UNCHANGED <<args, ingested, ncells, geometry, params, sampling, count_rows, areas>>

WriteCellHulls ==
    /\ CreateFile("write_hulls", "cells.geojson.gz", "write_assignments")
    /\ UNCHANGED <<args, ingested, ncells, geometry, params, sampling, count_rows, areas>>

WriteAssignments ==
    /\ CreateFile("write_assignments", "cell_assignments.csv.gz", "done")
    /\ UNCHANGED <<args, ingested, ncells, geometry, params, sampling, count_rows, areas>>

Next ==
    \/ ParseArgs
    \/ AssertNcomponents
    \/ ReadTranscripts(MainFiles)
    \/ ComputeNcells
    \/ CoordinateSpan
    \/ ChunkInit
    \/ ChunkGrow
    \/ ChunkFound
    \/ BuildParams
    \/ StageStart
    \/ SampleCellRegions
    \/ SampleGlobalParams
    \/ Diagnostics
    \/ StageEnd
    \/ WriteCounts
    \/ WriteZ
    \/ WriteCellHulls
    \/ WriteAssignments

Spec == Init /\ [][Next]_vars

(***************************************************************************)
(* The reader alone, on every file of IngestFiles, in 2D and in 3D mode.   *)
(***************************************************************************)
InitIngest ==
    /\ pc = "read"
    /\ panic = "none"
    /\ args \in {a \in ArgsSet : a.ncomponents = 1 /\ a.local_steps_per_iter = 0}
    /\ input = NoFile
    /\ transcript_names = <<>>
    /\ transcripts = <<>>
    /\ init_cell_assignments = <<>>
    /\ init_cell_population = <<>>
    /\ ncells = 0
    /\ nthreads = 0
    /\ xspan = 0
    /\ yspan = 0
    /\ chunk_size = <<0, 1>>
    /\ params = NoParams
    /\ stage = 0
    /\ i = 0
    /\ step = 0
    /\ trace = <<>>
    /\ created = <<>>
    /\ count_rows = 0
    /\ mean_nucleus_area = 0
    /\ full_area = 0

NextIngest == ReadTranscripts(IngestFiles)

SpecIngest == InitIngest /\ [][NextIngest]_vars

(***************************************************************************)
(* The chunk-size search alone, from every positive cell count, span and   *)
(* thread count of the bounds.  The variables the search does not read are *)
(* left as they are before main sets them.  The loop is sequential code:   *)
(* a step that can be taken is taken.                                      *)
(***************************************************************************)
ChunkCells == {1, 2, 3, 99, 100, 101, 250}
ChunkThreads == {1, 2, 3}

InitChunk ==
    /\ pc = "chunk_init"
    /\ panic = "none"
    /\ args = NoArgs
    /\ input = NoFile
    /\ transcript_names = <<>>
    /\ transcripts = <<>>
    /\ init_cell_assignments = <<>>
    /\ init_cell_population = <<>>
    /\ ncells \in ChunkCells
    /\ nthreads \in ChunkThreads
    /\ xspan \in 1..MaxSpan
    /\ yspan \in 1..MaxSpan
    /\ chunk_size = <<0, 1>>
    /\ params = NoParams
    /\ stage = 0
    /\ i = 0
    /\ step = 0
    /\ trace = <<>>
    /\ created = <<>>
    /\ count_rows = 0
    /\ mean_nucleus_area = 0
    /\ full_area = 0

NextChunk == ChunkInit \/ ChunkGrow \/ ChunkFound

SpecChunk == InitChunk /\ [][NextChunk]_vars /\ WF_vars(NextChunk)

(***************************************************************************)
(* transcripts.rs: estimate_full_area.  binsize = SCALE * sqrt(area) is    *)
(* kept as its square.                                                     *)
(***************************************************************************)
binsize_sq(area) == <<SCALE * SCALE * area, 1>>

\* (d / binsize).floor() as usize, for d >= 0 and binsize > 0
floor_quotient(d, sq) ==
    CHOOSE n \in 0..(d * sq[2]) :
        /\ n * n * sq[1] <= d * d * sq[2]
        /\ (n + 1) * (n + 1) * sq[1] > d * d * sq[2]

\* the shape of the occupancy grid
grid_shape(ts, area) ==
    LET s == coordinate_span(ts)
    IN  <<ceil_quotient(s[2] - s[1], binsize_sq(area)),
          ceil_quotient(s[4] - s[3], binsize_sq(area))>>

\* the bin <<xbin, ybin>> of a transcript
bin_of(t, ts, area) ==
    LET s == coordinate_span(ts)
    IN  <<floor_quotient(t.x - s[1], binsize_sq(area)),
          floor_quotient(t.y - s[3], binsize_sq(area))>>

\* the result: "index out of bounds" when occupied[[xbin, ybin]] is outside
\* the grid, else the area, occupied bins times binsize squared
estimate_full_area(ts, area) ==
    LET shape == grid_shape(ts, area)
        bins  == {bin_of(ts[k], ts, area) : k \in 1..Len(ts)}
    IN  IF \E b \in bins : b[1] >= shape[1] \/ b[2] >= shape[2]
        THEN [panic |-> "index out of bounds", area |-> 0]
        ELSE [panic |-> "none",
              area |-> (Cardinality(bins) * binsize_sq(area)[1]) \div binsize_sq(area)[2]]

EstimateFullArea ==
    /\ pc = "area"
    /\ LET r == estimate_full_area(transcripts, mean_nucleus_area)
       IN  IF r.panic # "none"
           THEN Abort(r.panic) /\ UNCHANGED full_area
           ELSE pc' = "area_done" /\ full_area' = r.area /\ UNCHANGED panic
    /\ UNCHANGED <<args, ingested, ncells, geometry, params, sampling, outputs,
                   mean_nucleus_area>>

AreaPoints == [x : 0..MaxCoord, y : 0..MaxCoord, z : {0}, gene : {0}]
NucleusAreas == {1, 2, 4}

InitArea ==
    /\ pc = "area"
    /\ panic = "none"
    /\ args = NoArgs
    /\ input = NoFile
    /\ transcript_names = <<"a">>
    /\ transcripts \in SeqsUpTo(AreaPoints, MaxPoints) \ {<<>>}
    /\ init_cell_assignments = <<>>
    /\ init_cell_population = <<>>
    /\ ncells = 0
    /\ nthreads = 0
    /\ xspan = 0
    /\ yspan = 0
    /\ chunk_size = <<0, 1>>
    /\ params = NoParams
    /\ stage = 0
    /\ i = 0
    /\ step = 0
    /\ trace = <<>>
    /\ created = <<>>
    /\ count_rows = 0
    /\ mean_nucleus_area \in NucleusAreas
    /\ full_area = 0

NextArea == EstimateFullArea

SpecArea == InitArea /\ [][NextArea]_vars

(***************************************************************************)
(* Properties                                                              *)
(***************************************************************************)
RECURSIVE SumSeq(_)
SumSeq(q) == IF q = <<>> THEN 0 ELSE q[1] + SumSeq(Tail(q))

SetMax(S) == CHOOSE m \in S : \A n \in S : n <= m

IsPrefix(a, b) == Len(a) <= Len(b) /\ \A k \in 1..Len(a) : a[k] = b[k]

\* the reader has returned its four results
ReaderReturned == pc = "ncells"

\* the records of the input at or above the quality threshold, in input order
\* (fields by their position in FullHeader)
Retained ==
    LET Kept(r) == r[7] >= args.min_qv
    IN  SelectSeq(input.rows, Kept)

Background == {k \in DOMAIN init_cell_assignments : init_cell_assignments[k] = BACKGROUND_CELL}

\* C1: the population vector the reader returns is as long as the largest
\* non-background cell id plus one (empty when every assignment is the
\* background sentinel), its entry c counts the transcripts assigned to c, and
\* its entries and the background transcripts add up to all transcripts.
C1_PopulationTalliesAssignments ==
    ReaderReturned =>
        LET a     == init_cell_assignments
            pop   == init_cell_population
            cells == {a[k] : k \in DOMAIN a} \ {BACKGROUND_CELL}
        IN  /\ Len(pop) = IF cells = {} THEN 0 ELSE SetMax(cells) + 1
            /\ \A c \in 0..(Len(pop) - 1) :
                   pop[c + 1] = Cardinality({k \in DOMAIN a : a[k] = c})
            /\ SumSeq(pop) + Cardinality(Background) = Len(transcripts)

\* C1's case: background and cell-owned transcripts together, and a cell id
\* below the largest that owns nothing
C1_Witness ==
    /\ ReaderReturned
    /\ Background # {}
    /\ init_cell_population = <<0, 1>>

\* C8: the retained records, the transcripts and the assignments correspond
\* index by index in input order; a record's assignment is its cell id exactly
\* when cell_id >= 0 and overlaps_nucleus > 0, else the background sentinel;
\* records below the threshold leave nothing.  In 2D and in 3D mode.
C8_AssignmentFromCellIdAndOverlap ==
    ReaderReturned =>
        /\ Len(transcripts) = Len(Retained)
        /\ Len(init_cell_assignments) = Len(Retained)
        /\ \A k \in 1..Len(Retained) :
              LET r == Retained[k]
              IN  /\ transcripts[k].x = r[2]
                  /\ transcripts[k].y = r[3]
                  /\ (init_cell_assignments[k] = r[5]) <=> (r[5] >= 0 /\ r[6] > 0)
                  /\ ~(r[5] >= 0 /\ r[6] > 0) => init_cell_assignments[k] = BACKGROUND_CELL

\* C8's case: the 3D reader, a dropped record before a retained one, and a
\* retained record with a cell id but no nucleus overlap
C8_Witness ==
    /\ ReaderReturned
    /\ args.z_column # <<>>
    /\ Len(input.rows) = 2
    /\ input.rows[1][7] < args.min_qv
    /\ Len(Retained) = 1
    /\ Retained[1][5] >= 0
    /\ Retained[1][6] = 0
    /\ init_cell_assignments = <<BACKGROUND_CELL>>

\* C9: gene ids are dense in first-seen order over the retained records: the
\* name list holds each distinct retained name once, a name first seen after
\* k distinct names has gene id k, every transcript's gene id indexes its
\* record's name, and two records share a gene id exactly when they share a
\* name.
C9_GeneIdsDenseFirstSeen ==
    ReaderReturned =>
        LET names    == transcript_names
            NameOf(k) == Retained[k][1]
            Seen     == {NameOf(k) : k \in 1..Len(Retained)}
            First(n) == CHOOSE k \in 1..Len(Retained) :
                            NameOf(k) = n /\ \A j \in 1..(k - 1) : NameOf(j) # n
        IN  /\ Len(transcripts) = Len(Retained)
            /\ Len(names) = Cardinality(Seen)
            /\ {names[g] : g \in DOMAIN names} = Seen
            /\ \A g \in DOMAIN names :
                   Cardinality({NameOf(j) : j \in 1..(First(names[g]) - 1)}) = g - 1
            /\ \A k \in 1..Len(Retained) :
                   /\ transcripts[k].gene + 1 \in DOMAIN names
                   /\ names[transcripts[k].gene + 1] = NameOf(k)
            /\ \A j, k \in 1..Len(Retained) :
                   (transcripts[j].gene = transcripts[k].gene) <=> (NameOf(j) = NameOf(k))

\* C9's case: two names, seen in the order b, a
C9_Witness ==
    /\ ReaderReturned
    /\ Len(input.rows) = 2
    /\ Len(Retained) = 2
    /\ transcript_names = <<"b", "a">>
    /\ transcripts[2].gene = 1

(***************************************************************************)
(* Properties of the whole program                                         *)
(***************************************************************************)
BeforeReaderReturns == pc \in {"start", "assert", "read"}

\* ingestion returned, and every transcript it kept is background
AllBackground ==
    /\ ~BeforeReaderReturns
    /\ panic \notin {"ncomponents", "open", "column"}
    /\ Background = DOMAIN init_cell_assignments

SamplerSteps == {k \in DOMAIN trace : trace[k].op \in {"global", "local"}}

\* C2: on an input whose retained transcripts are all background, main does
\* not abort on its cell count, the cell count it computes is 0, and the count
\* table it writes has no cell row.
C2_AllBackgroundRunsWithNoCells ==
    AllBackground =>
        /\ panic # "subtract with overflow"
        /\ pc # "ncells" => ncells = 0
        /\ "counts" \in {created[k] : k \in DOMAIN created} => count_rows = 0

\* the model parameters have been built
ParamsBuilt == params # NoParams

\* C3: when the model is built every initial assignment is the background
\* sentinel or a cell index below ncells, the cell count main passes to
\* ModelParams::new, and every sampler stage is given that same cell count.
C3_AssignmentsBelowNcells ==
    ParamsBuilt =>
        /\ \A k \in DOMAIN params.cell_assignments :
               \/ params.cell_assignments[k] = BACKGROUND_CELL
               \/ (0 <= params.cell_assignments[k] /\ params.cell_assignments[k] < params.ncells)
        /\ params.ncells = ncells
        /\ \A k \in DOMAIN trace : trace[k].ncells = params.ncells

\* the cell count is the wrapped 0 - 1 of an empty population vector (C2)
NcellsWrapped == ncells = USIZE_MAX

\* C5: after an abort on zero mixture components, an unreadable input, a
\* missing column or an unwritable count-table path, no sampler step has been
\* executed and no output file has been created.  (Stated for the runs whose
\* cell count did not wrap, which are enough to decide it.)
C5_ConfigurationErrorsAbortBeforeSampling ==
    (panic \in {"ncomponents", "open", "column", "create counts"} /\ ~NcellsWrapped) =>
        /\ SamplerSteps = {}
        /\ created = <<>>

\* the calls of iteration it of stage s, without the report of every 100th
\* iteration, as a sequence of call names
IterationCalls(s, it) ==
    LET Mine(e) == e.stage = s /\ e.i = it /\ e.op # "nunassigned"
        calls   == SelectSeq(trace, Mine)
    IN  [k \in 1..Len(calls) |-> calls[k].op]

\* an outer iteration: the local steps, the global resampling, the report
FullIteration ==
    [k \in 1..(args.local_steps_per_iter + 3) |->
        IF k <= args.local_steps_per_iter THEN "local"
        ELSE IF k = args.local_steps_per_iter + 1 THEN "global"
        ELSE IF k = args.local_steps_per_iter + 2 THEN "log_likelihood"
        ELSE "reset"]

Stages == 1..Len(sampler_schedule)
SamplingOver == pc \in {"write_counts", "write_z", "write_hulls", "write_assignments", "done"}

\* C6: every outer iteration is local_steps_per_iter calls of
\* sample_cell_regions, then one sample_global_params, then log_likelihood
\* and the reset of the proposal statistics; iterations and stages follow one
\* another in order, an iteration starting only when the one before is
\* complete; a stage has exactly niter iterations, and when sampling is over
\* every stage of the schedule has run them all.
C6_IterationShape ==
    /\ \A k \in DOMAIN trace :
           /\ trace[k].stage \in Stages
           /\ trace[k].i < sampler_schedule[trace[k].stage][2]
    /\ \A k \in 1..(Len(trace) - 1) :
           \/ trace[k].stage < trace[k + 1].stage
           \/ trace[k].stage = trace[k + 1].stage /\ trace[k].i <= trace[k + 1].i
    /\ \A s \in Stages : \A it \in 0..(sampler_schedule[s][2] - 1) :
           /\ IsPrefix(IterationCalls(s, it), FullIteration)
           /\ (IterationCalls(s, it) # <<>> /\ it > 0)
                  => IterationCalls(s, it - 1) = FullIteration
           /\ (IterationCalls(s, it) # <<>> /\ it = 0 /\ s > 1)
                  => IterationCalls(s - 1, sampler_schedule[s - 1][2] - 1) = FullIteration
           /\ SamplingOver => IterationCalls(s, it) = FullIteration

\* C6's case: the whole schedule has run, with two local steps per iteration
C6_Witness ==
    /\ pc = "done"
    /\ args.local_steps_per_iter = 2
    /\ IterationCalls(Len(sampler_schedule), NIter - 1) = <<"local", "local", "global", "log_likelihood", "reset">>

\* the last sample_global_params before call k of the trace, 0 if none
LastResamplingBefore(k) ==
    LET before == {j \in 1..(k - 1) : trace[j].op = "global"}
    IN  IF before = {} THEN 0 ELSE SetMax(before)

LocalSteps == {k \in DOMAIN trace : trace[k].op = "local"}

\* C7 as stated: the last global resampling before a local step is the one
\* that ended the previous iteration of the whole run (the last iteration of
\* the previous stage, for a stage's first iteration), and there is none
\* before the local steps of the first iteration of the run.  (Stated for the
\* runs whose cell count did not wrap, which are enough to decide it.)
C7_AsStated ==
    ~NcellsWrapped => \A k \in LocalSteps :
        LET g == LastResamplingBefore(k)
            s == trace[k].stage
            it == trace[k].i
        IN  IF s = 1 /\ it = 0 THEN g = 0
            ELSE /\ g # 0
                 /\ it > 0 => (trace[g].stage = s /\ trace[g].i = it - 1)
                 /\ it = 0 => (trace[g].stage = s - 1
                               /\ trace[g].i = sampler_schedule[s - 1][2] - 1)

\* C7, amended: the last global resampling before a local step of iteration
\* it of a stage is the one that ended iteration it - 1 of that stage, or, for
\* the stage's first iteration, the one the stage runs before its loop (i = -1);
\* hence none lies between two local steps of one iteration.
C7_ResamplingBeforeLocalSteps ==
    \A k \in LocalSteps :
        LET g == LastResamplingBefore(k)
        IN  /\ g # 0
            /\ trace[g].stage = trace[k].stage
            /\ trace[g].i = trace[k].i - 1

\* C7's case: local steps of the first and of a later iteration of a later
\* stage, two of them in one iteration
C7_Witness ==
    /\ \E k \in LocalSteps : trace[k].stage = 2 /\ trace[k].i = 0
    /\ \E k \in LocalSteps :
           /\ trace[k].stage = 2 /\ trace[k].i = 1
           /\ k > 1 /\ trace[k - 1].op = "local"

(***************************************************************************)
(* Properties of the chunk-size search and of the area estimate            *)
(***************************************************************************)
\* chunk size a is at most chunk size b (both squared)
ChunkSizeLeq(a, b) == a[1] * b[2] <= b[1] * a[2]

\* C4: in the chunk-size search the chunk size never decreases and the number
\* of chunks never increases from one step to the next, the search ends, and
\* when it has ended ncells / nchunks >= min_cells_per_chunk.
C4_ChunkSearchTerminates ==
    /\ [][pc = "chunk_search" =>
             /\ ChunkSizeLeq(chunk_size, chunk_size')
             /\ nchunks(chunk_size', xspan', yspan') <= nchunks(chunk_size, xspan, yspan)]_vars
    /\ [](pc = "params" =>
             /\ nchunks(chunk_size, xspan, yspan) > 0
             /\ ncells >= min_cells_per_chunk(ncells) * nchunks(chunk_size, xspan, yspan))
    /\ <>(pc = "params")

\* C4's case: the search has ended after at least two multiplications, with
\* more than one chunk left and the threshold capped at 100
C4_Witness ==
    /\ pc = "params"
    /\ ncells > MIN_CELLS_CAP
    /\ chunk_size[1] >= 4 * initial_chunk_size(xspan, yspan, nthreads)[1]
    /\ nchunks(chunk_size, xspan, yspan) > 1

\* C10: estimate_full_area never indexes the occupancy grid out of bounds:
\* every transcript's bin lies inside the grid, and the area returned is the
\* number of occupied bins times binsize squared.
C10_BinsInsideGrid ==
    pc \in {"area_done", "panicked"} =>
        LET shape == grid_shape(transcripts, mean_nucleus_area)
            bins  == {bin_of(transcripts[k], transcripts, mean_nucleus_area) :
                         k \in DOMAIN transcripts}
        IN  /\ panic = "none"
            /\ \A b \in bins : b[1] < shape[1] /\ b[2] < shape[2]
            /\ full_area = Cardinality(bins) * SCALE * SCALE * mean_nucleus_area

=============================================================================
